---------------------------- MODULE Spec2Model ----------------------------
(***************************************************************************)
(* Model of the freehand-stroke recogniser of free-draw-free-fall          *)
(* (src/src/utils/geometry.ts, lines 1-258).                               *)
(*                                                                         *)
(* Number representation.  Stroke points are pixel coordinates, modelled   *)
(* as integers.  JavaScript doubles derived from them are modelled in      *)
(* fixed point:                                                            *)
(*   - lengths (Math.hypot, perimeters) in units of 1/LenScale pixel,      *)
(*     rounded to nearest;                                                 *)
(*   - dimensionless ratios (rectangularity, circularity) in units of      *)
(*     1/RatioScale, rounded down;                                         *)
(*   - confidences in units of 1/ConfScale, exact given the ratios;        *)
(*   - numeric fields of rect and circle shapes in units of 1/OutScale     *)
(*     pixel.                                                              *)
(* Comparisons that the code makes between a quotient num/den and a        *)
(* threshold are made exactly, on cross-multiplied integers, wherever the  *)
(* operands are rational (rdp, ensureClosed, countCorners).                *)
(***************************************************************************)
EXTENDS Integers, Sequences, FiniteSets, TLC

(* One call of recognize (geometry.ts 237-258): its arguments, its locals   *)
(* and its return value.                                                   *)
VARIABLES pointsRaw, color, pc, rawClosed, pts, classified, candidates, result

(* The App component (App.tsx): the window, the React state and the        *)
(* Matter engine (gravity.y, the bodies of its world) and runner.          *)
VARIABLES window, mode, drawing, currentShape, shapes, gravityY, runner, world

(* History: the handler of the last step and the App state it started in.  *)
VARIABLES event, before

callVars == <<pointsRaw, color, pc, rawClosed, pts, classified, candidates, result>>

appVars == <<window, mode, drawing, currentShape, shapes, gravityY, runner, world>>

histVars == <<event, before>>

vars == <<callVars, appVars, histVars>>

-----------------------------------------------------------------------------
(* Resolutions of the fixed-point representation.                          *)
LenScale   == 2 * 16
RatioScale == 100 * 100
ConfScale  == 10 * RatioScale
OutScale   == LenScale

(* Bounds of the explored inputs: the points of a stroke passed to         *)
(* recognize, the points of a stroke drawn in the App and the shapes of    *)
(* its list.                                                               *)
MaxLen == 5
MaxStrokeLen == 2
MaxShapes == 2

-----------------------------------------------------------------------------
(* Integer helpers.                                                        *)
Abs(a) == IF a < 0 THEN 0 - a ELSE a
Min2(a, b) == IF a < b THEN a ELSE b
Max2(a, b) == IF a > b THEN a ELSE b
SetMin(S) == CHOOSE m \in S : \A o \in S : m <= o
SetMax(S) == CHOOSE m \in S : \A o \in S : m >= o

MaxInt == 1073741824 + 1073741823

(* floor(sqrt(n)), n >= 0.                                                 *)
RECURSIVE ISqrt(_)
ISqrt(n) ==
  IF n < 2 THEN n
  ELSE LET s == 2 * ISqrt(n \div 4)
           l == s + 1
       IN IF l > n \div l THEN s ELSE l

(* sqrt(n) rounded to the nearest integer, n >= 0.                         *)
RoundSqrt(n) == (ISqrt(4 * n) + 1) \div 2

(* <<floor(a*b/c), (a*b) % c>> for a, b >= 0 and 0 < c < 2^30, computed    *)
(* without forming a*b when it would not fit.                              *)
RECURSIVE MulDivQR(_, _, _)
MulDivQR(a, b, c) ==
  IF a = 0 \/ b = 0 THEN <<0, 0>>
  ELSE IF b <= MaxInt \div a THEN <<(a * b) \div c, (a * b) % c>>
  ELSE LET h  == MulDivQR(a, b \div 2, c)
           d  == 2 * h[2]
           q2 == 2 * h[1] + d \div c
           r2 == d % c
           e  == r2 + (a % c)
       IN IF b % 2 = 0 THEN <<q2, r2>>
          ELSE <<q2 + (a \div c) + (e \div c), e % c>>

MulDiv(a, b, c) == MulDivQR(a, b, c)[1]

(* a/b < c/d for a, c >= 0 and b, d > 0, decided exactly by the Euclidean  *)
(* expansion of both fractions.                                            *)
RECURSIVE FracLess(_, _, _, _)
FracLess(a, b, c, d) ==
  LET ia == a \div b
      ic == c \div d
      ra == a % b
      rc == c % d
  IN IF ia # ic THEN ia < ic
     ELSE IF rc = 0 THEN FALSE
     ELSE IF ra = 0 THEN TRUE
     ELSE FracLess(d, rc, b, ra)

(* x*x < k*y and x*x > k*y for x, k, y >= 0, exactly.                      *)
SqLess(x, k, y) ==
  IF x = 0 THEN k > 0 /\ y > 0
  ELSE IF y = 0 \/ k = 0 THEN FALSE
  ELSE FracLess(x, y, k, x)

SqGreater(x, k, y) ==
  IF x = 0 THEN FALSE
  ELSE IF y = 0 \/ k = 0 THEN TRUE
  ELSE FracLess(k, x, x, y)

(* Math.hypot(dx, dy) in units of 1/LenScale.                              *)
Hypot(dx, dy) == RoundSqrt((dx * dx + dy * dy) * LenScale * LenScale)

-----------------------------------------------------------------------------
(* Sequence helpers.                                                       *)
Last(s) == s[Len(s)]
Slice(s, a, b) == [i \in 1..(b - a + 1) |-> s[a + i - 1]]
RECURSIVE SumTo(_, _)
SumTo(f, n) == IF n = 0 THEN 0 ELSE f[n] + SumTo(f, n - 1)

-----------------------------------------------------------------------------
(* Geometry helpers (geometry.ts 9-69).  A point is <<x, y>>.              *)

(* bbox with the operands of w and h swapped.                              *)
bboxSwapped(points) ==
  LET xs == {points[i][1] : i \in 1..Len(points)}
      ys == {points[i][2] : i \in 1..Len(points)}
  IN [minX |-> SetMin(xs), minY |-> SetMin(ys), maxX |-> SetMax(xs), maxY |-> SetMax(ys),
      w |-> SetMin(xs) - SetMax(xs), h |-> SetMin(ys) - SetMax(ys)]

bbox(points) ==
  LET xs == {points[i][1] : i \in 1..Len(points)}
      ys == {points[i][2] : i \in 1..Len(points)}
      minX == SetMin(xs)
      maxX == SetMax(xs)
      minY == SetMin(ys)
      maxY == SetMax(ys)
  IN [minX |-> minX, minY |-> minY, maxX |-> maxX, maxY |-> maxY,
      w |-> maxX - minX, h |-> maxY - minY]

(* Length of the polyline, in units of 1/LenScale.                         *)
polygonPerimeter(points) ==
  SumTo([i \in 1..(Len(points) - 1) |->
           Hypot(points[i + 1][1] - points[i][1], points[i + 1][2] - points[i][2])],
        Len(points) - 1)

(* closeThresh = max(10, perim * 0.05); the gap is below it iff it is      *)
(* below 10 or below perim / 20.                                           *)
pathClosed(points) ==
  IF Len(points) < 3 THEN FALSE
  ELSE LET dx == points[1][1] - Last(points)[1]
           dy == points[1][2] - Last(points)[2]
           perim == polygonPerimeter(points)
       IN \/ dx * dx + dy * dy < 10 * 10
          \/ 20 * Hypot(dx, dy) < perim

(* minClosePx (geometry.ts 30).                                            *)
minClosePx == 8

(* ensureClosed with the tolerance test reversed (>= for <=).              *)
ensureClosedReversed(points) ==
  IF Len(points) < 2 THEN points
  ELSE LET dx == points[1][1] - Last(points)[1]
           dy == points[1][2] - Last(points)[2]
       IN IF dx * dx + dy * dy >= minClosePx * minClosePx THEN points
          ELSE Append(points, points[1])

(* ensureClosed closing the path with a copy of its last point.            *)
ensureClosedAppendLast(points) ==
  IF Len(points) < 2 THEN points
  ELSE LET dx == points[1][1] - Last(points)[1]
           dy == points[1][2] - Last(points)[2]
       IN IF dx * dx + dy * dy <= minClosePx * minClosePx THEN points
          ELSE Append(points, Last(points))

(* ensureClosed never appending the first point.                           *)
ensureClosedNever(points) == points

ensureClosed(points) ==
  IF Len(points) < 2 THEN points
  ELSE LET dx == points[1][1] - Last(points)[1]
           dy == points[1][2] - Last(points)[2]
       IN IF dx * dx + dy * dy <= minClosePx * minClosePx THEN points
          ELSE Append(points, points[1])

(* Twice the shoelace area: the code returns Math.abs(a) / 2, the model    *)
(* keeps Math.abs(a), so areas are in units of 1/2 square pixel.           *)
polygonArea(points) ==
  LET n == Len(points)
      prev(i) == IF i = 1 THEN n ELSE i - 1
  IN Abs(SumTo([i \in 1..n |->
                  points[prev(i)][1] * points[i][2] - points[i][1] * points[prev(i)][2]],
               n))

-----------------------------------------------------------------------------
(* Ramer-Douglas-Peucker (geometry.ts 56-91).                              *)
(* The distance of a point to the chord is d = num / den, with             *)
(* den = Math.hypot(ey - sy, ex - sx) || 1.  The model keeps num and       *)
(* den^2 (both integers) and compares d with epsilon exactly.  epsilon is  *)
(* passed as eps2 = 10^4 * epsilon^2.                                      *)

(* chordNum falling back to the distance to the single point when the      *)
(* chord is degenerate (start = end), rounded down.                        *)
chordNumToPoint(s, e, p) ==
  IF s = e
  THEN ISqrt((p[1] - s[1]) * (p[1] - s[1]) + (p[2] - s[2]) * (p[2] - s[2]))
  ELSE Abs((e[2] - s[2]) * p[1] - (e[1] - s[1]) * p[2] + e[1] * s[2] - e[2] * s[1])

chordNum(s, e, p) ==
  Abs((e[2] - s[2]) * p[1] - (e[1] - s[1]) * p[2] + e[1] * s[2] - e[2] * s[1])

(* den^2; the || 1 replaces a zero hypot by 1.                             *)
chordDen2(s, e) ==
  LET d2 == (e[2] - s[2]) * (e[2] - s[2]) + (e[1] - s[1]) * (e[1] - s[1])
  IN IF d2 = 0 THEN 1 ELSE d2

(* The largest numerator over the interior points (maxD * den).            *)
maxChordNum(points) ==
  SetMax({chordNum(points[1], Last(points), points[i]) : i \in 2..(Len(points) - 1)})

(* num / den < epsilon  and  num / den > epsilon.                          *)
DistLess(num, den2, eps2) == SqLess(100 * num, eps2, den2)
DistGreater(num, den2, eps2) == SqGreater(100 * num, eps2, den2)

(* rdpDistance(points) < epsilon; rdpDistance returns 0 for < 3 points.    *)
rdpDistanceLess(points, eps2) ==
  IF Len(points) < 3 THEN eps2 > 0
  ELSE DistLess(maxChordNum(points), chordDen2(points[1], Last(points)), eps2)

(* rdp returning the farthest point in place of the last one when the      *)
(* path is simplified.                                                     *)
rdpKeepFarthest(points, eps2) ==
  IF Len(points) <= 2 THEN points
  ELSE <<points[1],
         points[SetMin({i \in 2..(Len(points) - 1) :
                          chordNum(points[1], Last(points), points[i])
                            = maxChordNum(points)})]>>

RECURSIVE rdp(_, _)
rdp(points, eps2) ==
  IF Len(points) <= 2 THEN points
  ELSE LET n == Len(points)
           maxNum == maxChordNum(points)
           \* d > maxD is strict: idx is the first index reaching the maximum
           idx == SetMin({i \in 2..(n - 1) :
                            chordNum(points[1], points[n], points[i]) = maxNum})
           den2 == chordDen2(points[1], points[n])
       IN IF rdpDistanceLess(points, eps2) THEN <<points[1], points[n]>>
          ELSE IF DistGreater(maxNum, den2, eps2)
          THEN LET left == rdp(Slice(points, 1, idx), eps2)
                   right == rdp(Slice(points, idx, n), eps2)
               IN Slice(left, 1, Len(left) - 1) \o right
          ELSE <<points[1], points[n]>>

-----------------------------------------------------------------------------
(* Feature extractors (geometry.ts 93-141).                                *)

(* cos^2(35 degrees) in units of 1e-8 (angleThreshDeg = 35, line 93).      *)
Cos2AngleThresh == 67101007
CosScale == 10000 * 10000

(* A vertex is a corner when 35 < deg < 145, i.e. cos^2 < cos^2(35).       *)
(* mag || 1 replaces a zero magnitude by 1 (then dot = 0 and deg = 90).    *)
isCorner(p0, p1, p2) ==
  LET v1x == p0[1] - p1[1]
      v1y == p0[2] - p1[2]
      v2x == p2[1] - p1[1]
      v2y == p2[2] - p1[2]
      dot == Abs(v1x * v2x + v1y * v2y)
      m1  == IF v1x * v1x + v1y * v1y = 0 THEN 1 ELSE v1x * v1x + v1y * v1y
      m2  == IF v2x * v2x + v2y * v2y = 0 THEN 1 ELSE v2x * v2x + v2y * v2y
      big == Max2(m1, m2)
      sml == Min2(m1, m2)
      cos2 == Min2(CosScale, MulDiv(MulDiv(dot, CosScale, big), dot, sml))
  IN cos2 < Cos2AngleThresh

(* countCorners over the interior vertices only (no wrap-around).          *)
countCornersOpen(poly) ==
  IF Len(poly) < 3 THEN 0
  ELSE Cardinality({i \in 2..(Len(poly) - 1) : isCorner(poly[i - 1], poly[i], poly[i + 1])})

countCorners(poly) ==
  IF Len(poly) < 3 THEN 0
  ELSE LET n == Len(poly)
           prev(i) == IF i = 1 THEN n ELSE i - 1
           next(i) == IF i = n THEN 1 ELSE i + 1
       IN Cardinality({i \in 1..n : isCorner(poly[prev(i)], poly[i], poly[next(i)])})

(* fitCircle returns null, modelled as NoFit, or a record with cx, cy, r   *)
(* in units of 1/OutScale pixel and stdRel in units of 1/RatioScale.       *)
(* The sums are kept exactly on coordinates scaled by n and centred:       *)
(* U = n * (x - meanX), so SUU = n^2 * Suu, SUUU = n^3 * Suuu, and         *)
(* den = 2 * D / n^4.                                                      *)
NoFit == [fit |-> FALSE]

(* s * floor(a * |b| / c) with the sign s of b.                            *)
SMulDiv(a, b, c) == IF b < 0 THEN 0 - MulDiv(a, 0 - b, c) ELSE MulDiv(a, b, c)

(* Lines 137-140: r is the mean distance to the centre, stdRel the         *)
(* standard deviation of the distances over r || 1.  rs[i] is the distance *)
(* of point i and R their sum (n * r), in units of 1/OutScale.             *)
fitCircleSpread(n, cx, cy, rs, R) ==
  LET E   == SumTo([i \in 1..n |-> (n * rs[i] - R) * (n * rs[i] - R)], n)
                                                 \* n^3 * variance
      Rd  == IF R = 0 THEN n * OutScale ELSE R   \* r || 1
      \* stdRel^2 = variance / r^2 = E / (n * Rd^2)
      std2 == MulDiv(MulDiv(E, RatioScale, n * Rd), RatioScale, Rd)
  IN [fit |-> TRUE, cx |-> cx, cy |-> cy, r |-> R \div n, stdRel |-> ISqrt(std2)]

(* Line 136: the distances of the points to the centre (cx, cy).           *)
fitCircleRadii(points, n, cx, cy) ==
  LET F  == OutScale
      rs == [i \in 1..n |-> RoundSqrt((points[i][1] * F - cx) * (points[i][1] * F - cx)
                                     + (points[i][2] * F - cy) * (points[i][2] * F - cy))]
  IN fitCircleSpread(n, cx, cy, rs, SumTo(rs, n))

(* Lines 130-135: den, uc, vc and the centre.  D = n^4 * den / 2 is a      *)
(* Gram determinant, hence never negative; A1 = n^3 * (Suuu + Suvv) and    *)
(* A2 = n^3 * (Svvv + Suuv).                                               *)
fitCircleCentre(points, n, sx, sy, SUU, SUV, SVV, A1, A2) ==
  LET D == SUU * SVV - SUV * SUV
      F == OutScale
      \* 2 * n * uc and 2 * n * vc, in units of 1/F
      uc2n == SMulDiv(SVV, A1 * F, D) - SMulDiv(Abs(SUV), IF SUV < 0 THEN 0 - A2 * F ELSE A2 * F, D)
      vc2n == SMulDiv(SUU, A2 * F, D) - SMulDiv(Abs(SUV), IF SUV < 0 THEN 0 - A1 * F ELSE A1 * F, D)
  IN \* Math.abs(den) < 1e-6  iff  2 * D / n^4 < 1e-6
     IF D = 0 \/ FracLess(D, n * n, n * n, 2000000) THEN NoFit
     ELSE fitCircleRadii(points, n, (2 * sx * F + uc2n) \div (2 * n),
                                    (2 * sy * F + vc2n) \div (2 * n))

(* Lines 118-129: the centred moments (the means are sx / n and sy / n).   *)
fitCircleMoments(points, n, sx, sy) ==
  LET I == 1..n
      U == [i \in I |-> n * points[i][1] - sx]
      V == [i \in I |-> n * points[i][2] - sy]
  IN fitCircleCentre(points, n, sx, sy,
       SumTo([i \in I |-> U[i] * U[i]], n),
       SumTo([i \in I |-> U[i] * V[i]], n),
       SumTo([i \in I |-> V[i] * V[i]], n),
       SumTo([i \in I |-> U[i] * U[i] * U[i] + U[i] * V[i] * V[i]], n),
       SumTo([i \in I |-> V[i] * V[i] * V[i] + U[i] * U[i] * V[i]], n))

fitCircle(points) ==
  IF Len(points) < 6 THEN NoFit
  ELSE fitCircleMoments(points, Len(points),
         SumTo([i \in 1..Len(points) |-> points[i][1]], Len(points)),
         SumTo([i \in 1..Len(points) |-> points[i][2]], Len(points)))

-----------------------------------------------------------------------------
(* Classifiers (geometry.ts 162-235).  A candidate is                      *)
(* [shape |-> ..., confidence |-> ...], the confidence in 1/ConfScale.     *)

TwoPi == 2 * 31416   \* 2 * Math.PI in units of 1/RatioScale

(* (4 * Math.PI * A) / ((P || 1) * (P || 1)), in units of 1/RatioScale;    *)
(* A is in half square pixels and P in units of 1/LenScale.                *)
circularity(P, A) ==
  LET Pd == IF P = 0 THEN LenScale ELSE P
  IN MulDiv(A * LenScale * LenScale, TwoPi, Pd * Pd)

Rect(x, y, w, h, c) == [type |-> "rect", x |-> x, y |-> y, w |-> w, h |-> h, color |-> c]
Circle(x, y, r, c) == [type |-> "circle", x |-> x, y |-> y, r |-> r, color |-> c]
Triangle(points, c) == [type |-> "triangle", points |-> points, color |-> c]
FreeDefaultColor(points, c) == [type |-> "free", points |-> points, color |-> "#000000"]
Free(points, c) == [type |-> "free", points |-> points, color |-> c]
Candidate(shape, confidence) == [shape |-> shape, confidence |-> confidence]

classifyRectangle(simp, closedRaw, P, A, w, h, c) ==
  LET areaBBox == w * h
      rectangularity == MulDiv(A, RatioScale \div 2, Max2(1, areaBBox))
      circ == circularity(P, A)
      confidence ==
        IF rectangularity < 6 * (RatioScale \div 10) \/ circ > 9 * (RatioScale \div 10)
        THEN 0
        ELSE 8 * rectangularity + 2 * (RatioScale - circ)
      bb == bbox(closedRaw)
      Hd == IF h = 0 THEN 1 ELSE h          \* H || 1
      F  == OutScale
  \* Math.abs(aspect - 1) < 0.2 in double precision: W / H rounds 6/5 down
  \* and 4/5 up, so |W / H - 1| evaluates to 0.19999999999999996 < 0.2 when
  \* the ratio is exactly 1.2 or 0.8, and the test is 5 |W - H| <= H.
  IN IF 5 * Abs(w - Hd) <= Hd
     THEN LET cx == bb.minX * F + (w * F) \div 2
              cy == bb.minY * F + (h * F) \div 2
              s  == Min2(w, h)
          IN Candidate(Rect(cx - (s * F) \div 2, cy - (s * F) \div 2, s * F, s * F, c),
                       confidence)
     ELSE Candidate(Rect(bb.minX * F, bb.minY * F, w * F, h * F, c), confidence)

(* circleCandidate taking the fitted circle whenever there is a fit.       *)
circleCandidateAnyFit(fit, bb, w, h, confidence, c) ==
  IF fit.fit
  THEN Candidate(Circle(fit.cx, fit.cy, fit.r, c), confidence + ConfScale \div 10)
  ELSE Candidate(Circle(bb.minX * OutScale + (w * OutScale) \div 2,
                        bb.minY * OutScale + (h * OutScale) \div 2,
                        (Min2(w, h) * OutScale) \div 2, c),
                 confidence)

(* Lines 196-205: the fitted circle when the fit is good, else the circle  *)
(* inscribed in the bounding box.                                          *)
circleCandidate(fit, bb, w, h, confidence, c) ==
  IF fit.fit /\ fit.r > 6 * OutScale /\ fit.stdRel < 15 * (RatioScale \div 100)
  THEN Candidate(Circle(fit.cx, fit.cy, fit.r, c), confidence + ConfScale \div 10)
  ELSE Candidate(Circle(bb.minX * OutScale + (w * OutScale) \div 2,
                        bb.minY * OutScale + (h * OutScale) \div 2,
                        (Min2(w, h) * OutScale) \div 2, c),
                 confidence)

classifyCircle(simp, closedRaw, P, A, w, h, closed, c) ==
  IF ~closed \/ Min2(w, h) < 10 THEN Candidate(Free(simp, c), 0)
  ELSE circleCandidate(fitCircle(simp), bbox(closedRaw), w, h,
         IF circularity(P, A) < 75 * (RatioScale \div 100) THEN 0 ELSE 9 * circularity(P, A),
         c)

(* Pairwise-distance sum of a triple, in units of 1/LenScale.              *)
tripleSum(a, b, c) ==
  Hypot(a[1] - b[1], a[2] - b[2]) + Hypot(b[1] - c[1], b[2] - c[2])
    + Hypot(c[1] - a[1], c[2] - a[2])

(* bestTriple taking the first three points of the simplified path.        *)
bestTripleFirst(simp) ==
  IF Len(simp) < 3 THEN <<>> ELSE <<simp[1], simp[2], simp[3]>>

(* The loops visit i < j < k in lexicographic order and replace best only  *)
(* on a strictly larger sum: best is the lexicographically first maximal   *)
(* triple.                                                                 *)
bestTriple(simp) ==
  LET n == Len(simp)
      T == {t \in (1..n) \X (1..n) \X (1..n) : t[1] < t[2] /\ t[2] < t[3]}
      sum(t) == tripleSum(simp[t[1]], simp[t[2]], simp[t[3]])
      LexLeq(a, b) == \/ a[1] < b[1]
                      \/ a[1] = b[1] /\ a[2] < b[2]
                      \/ a[1] = b[1] /\ a[2] = b[2] /\ a[3] <= b[3]
  IN IF T = {} THEN <<>>
     ELSE LET m == SetMax({sum(t) : t \in T})
              b == CHOOSE t \in T : sum(t) = m /\ \A o \in T : sum(o) = m => LexLeq(t, o)
          IN <<simp[b[1]], simp[b[2]], simp[b[3]]>>

(* Lines 212-217: the confidence of the triangle candidate for a corner    *)
(* count and a circularity, 0 when it is under 0.3.                        *)
triangleConfidence(corners, circ) ==
  LET confidence ==
        IF corners >= 3 /\ corners <= 5 /\ circ < 85 * (RatioScale \div 100)
        THEN Min2(8 * (ConfScale \div 10), (corners - 2) * 2 * (ConfScale \div 10))
               + 3 * (RatioScale - circ)
        ELSE 0
  IN IF confidence < 3 * (ConfScale \div 10) THEN 0 ELSE confidence

classifyTriangle(simp, P, A, c) ==
  LET confidence == triangleConfidence(countCorners(simp), circularity(P, A))
  IN IF confidence = 0 THEN Candidate(Free(simp, c), 0)
     ELSE LET best == bestTriple(simp)
          IN IF Len(best) = 3 THEN Candidate(Triangle(best, c), confidence)
             ELSE Candidate(Free(simp, c), 0)

-----------------------------------------------------------------------------
(* recognize (geometry.ts 237-258).                                        *)

(* The confidence floor 0.4 of the filter (line 253), in 1/ConfScale.      *)
confidenceFloor == 4 * (ConfScale \div 10)

(* filter(c => c.confidence > 0.4), then a stable sort by descending       *)
(* confidence and [0]: the first survivor of maximal confidence.           *)
survivors(cands) == SelectSeq(cands, LAMBDA c : c.confidence > confidenceFloor)

(* pick returning the candidate instead of its shape ([0] for [0].shape).  *)
pickCandidate(cands, fallback) ==
  LET sv == survivors(cands)
  IN IF Len(sv) > 0
     THEN LET m == SetMax({sv[i].confidence : i \in 1..Len(sv)})
              first == SetMin({i \in 1..Len(sv) : sv[i].confidence = m})
          IN sv[first]
     ELSE fallback

(* pick with the comparator reversed (a.confidence - b.confidence).        *)
pickAscending(cands, fallback) ==
  LET sv == survivors(cands)
  IN IF Len(sv) > 0
     THEN LET m == SetMin({sv[i].confidence : i \in 1..Len(sv)})
              first == SetMin({i \in 1..Len(sv) : sv[i].confidence = m})
          IN sv[first].shape
     ELSE fallback

pick(cands, fallback) ==
  LET sv == survivors(cands)
  IN IF Len(sv) > 0
     THEN LET m == SetMax({sv[i].confidence : i \in 1..Len(sv)})
              first == SetMin({i \in 1..Len(sv) : sv[i].confidence = m})
          IN sv[first].shape
     ELSE fallback

(* eps = Math.max(3, Math.hypot(w, h) * 0.01), passed as 10^4 * eps^2.     *)
epsilon2(w, h) == Max2(3 * 3 * 100 * 100, w * w + h * h)

(* Lines 247-257: the three classifiers, the filter and the selection.     *)
recognizeArbitrated(closedRaw, simp, cands, c) ==
  [rawClosed |-> closedRaw, pts |-> simp, classified |-> TRUE,
   candidates |-> cands, result |-> pick(cands, Free(simp, c))]

recognizeMeasured(raw, closedRaw, bb, simp, P, A, c) ==
  recognizeArbitrated(closedRaw, simp,
    <<classifyRectangle(simp, closedRaw, P, A, bb.w, bb.h, c),
      classifyCircle(simp, closedRaw, P, A, bb.w, bb.h, pathClosed(raw), c),
      classifyTriangle(simp, P, A, c)>>,
    c)

(* recognizeSimplified returning the simplified path in the early return.  *)
recognizeSimplifiedShort(raw, closedRaw, bb, simp, c) ==
  IF Len(simp) < 3
  THEN [rawClosed |-> closedRaw, pts |-> simp, classified |-> FALSE,
        candidates |-> <<>>, result |-> Free(simp, c)]
  ELSE recognizeMeasured(raw, closedRaw, bb, simp,
         polygonPerimeter(simp), polygonArea(simp), c)

(* Lines 243-246: the early return and the measures of the simplified path. *)
recognizeSimplified(raw, closedRaw, bb, simp, c) ==
  IF Len(simp) < 3
  THEN [rawClosed |-> closedRaw, pts |-> simp, classified |-> FALSE,
        candidates |-> <<>>, result |-> Free(closedRaw, c)]
  ELSE recognizeMeasured(raw, closedRaw, bb, simp,
         polygonPerimeter(simp), polygonArea(simp), c)

(* Lines 238-241: the closed path, its bounding box and its simplification. *)
recognizeClosed(raw, closedRaw, bb, c) ==
  recognizeSimplified(raw, closedRaw, bb, rdp(closedRaw, epsilon2(bb.w, bb.h)), c)

(* recognize closing its input in place (points.push) when the gap        *)
(* exceeds minClosePx.                                                     *)
recognizeInputPushed(raw) ==
  IF Len(raw) >= 2
       /\ (raw[1][1] - Last(raw)[1]) * (raw[1][1] - Last(raw)[1])
            + (raw[1][2] - Last(raw)[2]) * (raw[1][2] - Last(raw)[2])
          > minClosePx * minClosePx
  THEN Append(raw, raw[1])
  ELSE raw

(* The array passed as pointsRaw after the call.  ensureClosed builds the  *)
(* closed path with a spread ([...points, [x0, y0]], line 35), rdp copies  *)
(* with slice and spread (lines 86-88), the classifiers only read, and     *)
(* sort (line 256) reorders the filtered array: nothing writes the input.  *)
recognizeInput(raw) == raw

(* The locals of one call of recognize and its return value.               *)
recognizeFrame(raw, c) ==
  recognizeClosed(raw, ensureClosed(raw), bbox(ensureClosed(raw)), c)

recognize(raw, c) == recognizeFrame(raw, c).result

-----------------------------------------------------------------------------
(* Inputs of the explored calls.                                           *)

(* Pixel positions of the sampled pointer events.                          *)
Pixels == {<<0, 0>>, <<4, 0>>, <<20, 0>>, <<0, 20>>, <<4, 20>>, <<20, 20>>}

Colors == {"#1f77b4", "#d62728"}

RECURSIVE SeqsUpTo(_, _)
SeqsUpTo(S, n) ==
  IF n = 0 THEN {<<>>}
  ELSE LET shorter == SeqsUpTo(S, n - 1)
       IN shorter \cup {Append(q, e) : q \in {r \in shorter : Len(r) = n - 1}, e \in S}

Strokes == SeqsUpTo(Pixels, MaxLen) \ {<<>>}

(* The strokes of the worked examples: an exact 100 x 100 square closed by *)
(* a fifth point equal to the first; a closed triangle; 36 points evenly   *)
(* spaced on the circle of radius 50 about (60, 60), sampled at pixel      *)
(* positions; a hexagon of radius 10 ending near its first point.          *)
SquareStroke == <<<<0, 0>>, <<100, 0>>, <<100, 100>>, <<0, 100>>, <<0, 0>>>>
TriangleStroke == <<<<0, 0>>, <<100, 0>>, <<50, 90>>, <<0, 0>>>>
CircleCentre == <<60, 60>>
CircleStroke ==
  << <<110, 60>>, <<109, 69>>, <<107, 77>>, <<103, 85>>, <<98, 92>>, <<92, 98>>,
     <<85, 103>>, <<77, 107>>, <<69, 109>>, <<60, 110>>, <<51, 109>>, <<43, 107>>,
     <<35, 103>>, <<28, 98>>, <<22, 92>>, <<17, 85>>, <<13, 77>>, <<11, 69>>,
     <<10, 60>>, <<11, 51>>, <<13, 43>>, <<17, 35>>, <<22, 28>>, <<28, 22>>,
     <<35, 17>>, <<43, 13>>, <<51, 11>>, <<60, 10>>, <<69, 11>>, <<77, 13>>,
     <<85, 17>>, <<92, 22>>, <<98, 28>>, <<103, 35>>, <<107, 43>>, <<109, 51>> >>
HexagonStroke == <<<<20, 10>>, <<15, 19>>, <<5, 19>>, <<0, 10>>, <<5, 1>>, <<15, 1>>, <<19, 7>>>>

(* A rectangle of 24 by 20 pixels, left open by 4 pixels.                  *)
WideRectStroke == <<<<0, 0>>, <<24, 0>>, <<24, 20>>, <<0, 20>>, <<0, 4>>>>

(* A slab of 40 by 20 pixels with slanted ends, left open by 6 pixels: its  *)
(* simplified path has six points and a poor circle fit.                   *)
SlabStroke ==
  <<<<0, 0>>, <<20, 0>>, <<40, 4>>, <<40, 16>>, <<20, 20>>, <<0, 20>>, <<0, 6>>>>

Examples ==
  {SquareStroke, TriangleStroke, CircleStroke, HexagonStroke, WideRectStroke, SlabStroke}

Inputs == Strokes \cup Examples

(* The stroke with every coordinate multiplied by k.                       *)
Scale(points, k) == [i \in 1..Len(points) |-> <<k * points[i][1], k * points[i][2]>>]
Scales == {2, 3}

Null == [type |-> "none"]

-----------------------------------------------------------------------------
(* One call recognize(pointsRaw, color): pc is "call" before and "done"    *)
(* after it; rawClosed, pts, classified and candidates are its locals.     *)

-----------------------------------------------------------------------------
(* The App component (App.tsx).                                            *)

MOBILE_GUTTER == 12
MOBILE_UI_ALLOWANCE == 100
GROUND_HEIGHT == 25

(* window.innerWidth and window.innerHeight: a desktop and a small window. *)
Windows == {[width |-> 800, height |-> 900], [width |-> 400, height |-> 300]}

isMobile(win) == win.width <= 600

viewportWidth(win) ==
  IF isMobile(win) THEN Max2(280, win.width - MOBILE_GUTTER * 2) ELSE 600

viewportHeight(win) ==
  IF isMobile(win)
  THEN Max2(240, Min2((viewportWidth(win) * 13) \div 10, win.height - MOBILE_UI_ALLOWANCE))
  ELSE 500

GROUND_TOP(win) == viewportHeight(win) - GROUND_HEIGHT

(* Pointer positions relative to the overlay: above the ground of both     *)
(* windows, above the ground of the desktop window only, and over the      *)
(* ground of both.                                                         *)
AppPixels == {<<10, 212>>, <<30, 216>>, <<10, 480>>}

(* e.touches[0] of a touch event without touches.                          *)
NoTouch == <<>>

(* The colors getRandomColor returns.                                      *)
AppColors == {"#1f77b4"}

(* A body of the Matter world.                                             *)
Ground == [kind |-> "ground", isStatic |-> TRUE]
Body(shape, dynamic) == [kind |-> "body", shape |-> shape, isStatic |-> ~dynamic]

(* The shapes syncWorldFromShapes adds a body for: a free shape needs more *)
(* than 2 points (Matter.Bodies.fromVertices is taken to return a body     *)
(* for the vertices it is given).                                          *)
hasBody(shape) == shape.type = "free" => Len(shape.points) > 2

(* syncWorldFromShapes ignoring its parameter (isStatic: true).            *)
syncWorldStatic(list, dynamic) ==
  <<Ground>> \o [i \in 1..Len(SelectSeq(list, hasBody)) |->
                   Body(SelectSeq(list, hasBody)[i], FALSE)]

(* The world after syncWorldFromShapes(dynamic): cleared, the ground, and  *)
(* one body per shape that gets one, in list order.                        *)
syncWorldFromShapes(list, dynamic) ==
  <<Ground>> \o [i \in 1..Len(SelectSeq(list, hasBody)) |->
                   Body(SelectSeq(list, hasBody)[i], dynamic)]

Init ==
  /\ pointsRaw \in Inputs
  /\ color \in Colors
  /\ pc = "call"
  /\ rawClosed = <<>>
  /\ pts = <<>>
  /\ classified = FALSE
  /\ candidates = <<>>
  /\ result = Null
  /\ window = [width |-> 800, height |-> 900]
  /\ mode = "draw"
  /\ drawing = FALSE
  /\ currentShape = Null
  /\ shapes = <<>>
  /\ gravityY = 0
  /\ runner = FALSE
  /\ world = <<Ground>>
  /\ event = "none"
  /\ before = Null

Recognize ==
  /\ pc = "call"
  /\ \E f \in {recognizeFrame(pointsRaw, color)} :
        /\ rawClosed' = f.rawClosed
        /\ pts' = f.pts
        /\ classified' = f.classified
        /\ candidates' = f.candidates
        /\ result' = f.result
  /\ pointsRaw' = recognizeInput(pointsRaw)
  /\ pc' = "done"
  /\ UNCHANGED <<color, appVars, histVars>>

Next == Recognize

Spec == Init /\ [][Next]_vars

-----------------------------------------------------------------------------
(* The handlers of the App component.  Each step is one handler with the   *)
(* render and the effects that follow it; a handler sees the state the     *)
(* previous one committed.  The overlay canvas, and with it the mouse and  *)
(* touch handlers, exists in draw mode only (App.tsx JSX).                 *)

(* The history of a step of handler e.                                     *)
(* The handler of the last step (down, move and up for the mouse and the   *)
(* touch handlers alike) and the state it started in.                      *)
Log(e) ==
  /\ event' = e
  /\ before' = [window |-> window, mode |-> mode, drawing |-> drawing,
                currentShape |-> currentShape, shapes |-> shapes,
                gravityY |-> gravityY, runner |-> runner]

(* The effects after a render in which shapes, mode or the viewport have   *)
(* changed: the shapes/mode effect syncs the world, static in draw mode    *)
(* and dynamic in play mode, and the mode effect, in draw mode, stops the  *)
(* runner and sets gravity to 0.  g and r are gravity.y and the runner as  *)
(* the handler left them.                                                  *)
effects(list, m, g, r) ==
  /\ world' = syncWorldFromShapes(list, m = "play")
  /\ gravityY' = IF m = "draw" THEN 0 ELSE g
  /\ runner' = IF m = "draw" THEN FALSE ELSE r

(* handleMouseDown and handleTouchStart after the position is known.       *)
startStroke(p, c) ==
  IF mode # "draw" \/ p[2] >= GROUND_TOP(window)
  THEN UNCHANGED appVars
  ELSE /\ drawing' = TRUE
       /\ currentShape' = Free(<<p>>, c)
       /\ UNCHANGED <<window, mode, shapes, gravityY, runner, world>>

(* handleMouseMove and handleTouchMove after the position is known.        *)
extendStroke(p) ==
  IF ~drawing \/ mode # "draw" \/ currentShape = Null \/ p[2] >= GROUND_TOP(window)
  THEN UNCHANGED appVars
  ELSE /\ Len(currentShape.points) < MaxStrokeLen
       /\ currentShape' = Free(Append(currentShape.points, p), currentShape.color)
       /\ UNCHANGED <<window, mode, drawing, shapes, gravityY, runner, world>>

(* handleMouseUp and handleTouchEnd.                                       *)
endStroke ==
  IF drawing /\ currentShape # Null
  THEN /\ Len(shapes) < MaxShapes
       /\ shapes' = Append(shapes, recognize(currentShape.points, currentShape.color))
       /\ currentShape' = Null
       /\ drawing' = FALSE
       /\ effects(shapes', mode, gravityY, runner)
       /\ UNCHANGED <<window, mode>>
  ELSE UNCHANGED appVars

handleMouseDown ==
  /\ mode = "draw"
  /\ \E p \in AppPixels, c \in AppColors : startStroke(p, c)
  /\ Log("down")
  /\ UNCHANGED callVars

handleMouseMove ==
  /\ mode = "draw"
  /\ \E p \in AppPixels : extendStroke(p)
  /\ Log("move")
  /\ UNCHANGED callVars

handleMouseUp ==
  /\ mode = "draw"
  /\ endStroke
  /\ Log("up")
  /\ UNCHANGED callVars

handleTouchStart ==
  /\ mode = "draw"
  /\ \E t \in AppPixels \cup {NoTouch}, c \in AppColors :
       IF t = NoTouch THEN UNCHANGED appVars ELSE startStroke(t, c)
  /\ Log("down")
  /\ UNCHANGED callVars

handleTouchMove ==
  /\ mode = "draw"
  /\ \E t \in AppPixels \cup {NoTouch} :
       IF t = NoTouch THEN UNCHANGED appVars ELSE extendStroke(t)
  /\ Log("move")
  /\ UNCHANGED callVars

(* onTouchEnd and onTouchCancel.                                           *)
handleTouchEnd ==
  /\ mode = "draw"
  /\ endStroke
  /\ Log("up")
  /\ UNCHANGED callVars


(* handleUndo removing the first shape (slice(1)).                         *)
handleUndoFirst ==
  /\ IF shapes = <<>>
     THEN UNCHANGED appVars
     ELSE /\ shapes' = Tail(shapes)
          /\ effects(Tail(shapes), mode, gravityY, runner)
          /\ UNCHANGED <<window, mode, drawing, currentShape>>
  /\ Log("undo")
  /\ UNCHANGED callVars

(* handleUndo returns at once on an empty list (and the Undo button is     *)
(* disabled while the list is empty).                                      *)
handleUndo ==
  /\ IF shapes = <<>>
     THEN UNCHANGED appVars
     ELSE /\ shapes' = SubSeq(shapes, 1, Len(shapes) - 1)
          /\ effects(SubSeq(shapes, 1, Len(shapes) - 1), mode, gravityY, runner)
          /\ UNCHANGED <<window, mode, drawing, currentShape>>
  /\ Log("undo")
  /\ UNCHANGED callVars

(* handleReset without setMode('draw').                                    *)
handleResetKeepsMode ==
  /\ shapes' = <<>>
  /\ currentShape' = Null
  /\ drawing' = FALSE
  /\ effects(<<>>, mode, 0, FALSE)
  /\ Log("reset")
  /\ UNCHANGED <<window, mode, callVars>>

(* handleReset stops the runner, clears the world and sets gravity to 0;   *)
(* the effects then put the ground back.                                   *)
handleReset ==
  /\ shapes' = <<>>
  /\ currentShape' = Null
  /\ drawing' = FALSE
  /\ mode' = "draw"
  /\ effects(<<>>, "draw", 0, FALSE)
  /\ Log("reset")
  /\ UNCHANGED <<window, callVars>>

(* The Fall button, disabled in play mode.                                 *)
handlePlay ==
  /\ mode = "draw"
  /\ mode' = "play"
  /\ effects(shapes, "play", 1, TRUE)
  /\ Log("play")
  /\ UNCHANGED <<window, drawing, currentShape, shapes, callVars>>

(* The Draw button (setMode('draw')), disabled in draw mode.               *)
handleDraw ==
  /\ mode = "play"
  /\ mode' = "draw"
  /\ effects(shapes, "draw", gravityY, runner)
  /\ Log("draw")
  /\ UNCHANGED <<window, drawing, currentShape, shapes, callVars>>

(* A resize that changes the viewport: the init effect stops the runner    *)
(* and creates a new engine with gravity 0, and the effects sync its       *)
(* world.                                                                  *)
handleResize ==
  /\ \E win \in Windows :
       /\ <<viewportWidth(win), viewportHeight(win)>>
            # <<viewportWidth(window), viewportHeight(window)>>
       /\ window' = win
  /\ effects(shapes, mode, 0, FALSE)
  /\ Log("resize")
  /\ UNCHANGED <<mode, drawing, currentShape, shapes, callVars>>

AppInit ==
  /\ pointsRaw = <<>>
  /\ color = ""
  /\ pc = "idle"
  /\ rawClosed = <<>>
  /\ pts = <<>>
  /\ classified = FALSE
  /\ candidates = <<>>
  /\ result = Null
  /\ window \in Windows
  /\ mode = "draw"
  /\ drawing = FALSE
  /\ currentShape = Null
  /\ shapes = <<>>
  /\ gravityY = 0
  /\ runner = FALSE
  /\ world = <<Ground>>
  /\ event = "none"
  /\ before = Null

AppNext ==
  \/ handleMouseDown
  \/ handleMouseMove
  \/ handleMouseUp
  \/ handleTouchStart
  \/ handleTouchMove
  \/ handleTouchEnd
  \/ handleUndo
  \/ handleReset
  \/ handlePlay
  \/ handleDraw
  \/ handleResize

AppSpec == AppInit /\ [][AppNext]_vars

-----------------------------------------------------------------------------
(* Properties.                                                             *)

Done == pc = "done"

Gap2(points) ==
  (points[1][1] - Last(points)[1]) * (points[1][1] - Last(points)[1])
    + (points[1][2] - Last(points)[2]) * (points[1][2] - Last(points)[2])

IsPointSeq(q) ==
  /\ DOMAIN q = 1..Len(q)
  /\ \A i \in 1..Len(q) : q[i] \in Int \X Int

(* A value of the DrawnShape union (geometry.ts 2-6).                      *)
IsShape(v) ==
  /\ "type" \in DOMAIN v
  /\ \/ /\ v.type = "rect"
        /\ DOMAIN v = {"type", "x", "y", "w", "h", "color"}
        /\ {v.x, v.y, v.w, v.h} \subseteq Int
     \/ /\ v.type = "circle"
        /\ DOMAIN v = {"type", "x", "y", "r", "color"}
        /\ {v.x, v.y, v.r} \subseteq Int
     \/ /\ v.type \in {"triangle", "free"}
        /\ DOMAIN v = {"type", "points", "color"}
        /\ IsPointSeq(v.points)

(* C1: for every non-empty stroke, all-identical and collinear ones        *)
(* included, recognize has a value, and the value a call returns is        *)
(* exactly one DrawnShape whose type is rect, circle, triangle or free.    *)
C1_RecognizeTotal ==
  /\ pc = "call" => Len(pointsRaw) >= 1 /\ IsShape(recognize(pointsRaw, color))
  /\ Done => IsShape(result)

(* Witness of C1: a stroke of at least three identical points has been     *)
(* recognised.                                                             *)
C1_Witness ==
  /\ Done
  /\ Len(pointsRaw) >= 3
  /\ \A i \in 1..Len(pointsRaw) : pointsRaw[i] = pointsRaw[1]
  /\ IsShape(result)

(* C2: the returned shape satisfies its variant's invariant: a rect has    *)
(* w > 0 and h > 0, a circle r > 0, a triangle exactly three points, a     *)
(* free shape at least one point.                                          *)
C2_VariantInvariant ==
  Done =>
    /\ result.type = "rect" => result.w > 0 /\ result.h > 0
    /\ result.type = "circle" => result.r > 0
    /\ result.type = "triangle" => Len(result.points) = 3
    /\ result.type = "free" => Len(result.points) >= 1

(* Witness of C2: a rect snapped to a square has been returned.            *)
C2_Witness ==
  /\ Done
  /\ result.type = "rect"
  /\ result.w = result.h
  /\ result.w > 0

(* C3: a stroke that pathClosed reports as not closed is returned as a     *)
(* free shape, never as a rect, circle or triangle.                        *)
C3_OpenStrokeIsFree ==
  Done /\ ~pathClosed(pointsRaw) => result.type = "free"

(* Witness of C3: a zigzag of five points, no two consecutive ones equal,   *)
(* spanning a box and ending far from its start, is not closed and has     *)
(* been returned as a free shape.                                          *)
C3_Witness ==
  /\ Done
  /\ Len(pointsRaw) >= 5
  /\ \A i \in 1..(Len(pointsRaw) - 1) : pointsRaw[i] # pointsRaw[i + 1]
  /\ bbox(pointsRaw).w > 0 /\ bbox(pointsRaw).h > 0
  /\ Gap2(pointsRaw) >= 20 * 20
  /\ ~pathClosed(pointsRaw)
  /\ result.type = "free"

(* |a - b| <= tol for values in units of 1/OutScale pixel.                 *)
Near(a, b, tol) == Abs(a - b) <= tol * OutScale

(* C4: the exact 100 x 100 square closed by a fifth point equal to the     *)
(* first is returned as a rect with w and h approximately 100.             *)
C4_SquareIsRect ==
  Done /\ pointsRaw = SquareStroke =>
    /\ result.type = "rect"
    /\ Near(result.w, 100 * OutScale, 5)
    /\ Near(result.h, 100 * OutScale, 5)

(* C5: the closed triangle (0,0), (100,0), (50,90), (0,0) is returned as   *)
(* a triangle whose vertices are those three corners, in any order.        *)
C5_TriangleIsTriangle ==
  Done /\ pointsRaw = TriangleStroke =>
    /\ result.type = "triangle"
    /\ {result.points[i] : i \in 1..Len(result.points)}
         = {<<0, 0>>, <<100, 0>>, <<50, 90>>}

(* C6: 36 points evenly spaced on a circle of radius 50 are returned as a  *)
(* circle whose centre is within a few units of the true centre and whose  *)
(* radius is within 10% of 50.                                             *)
C6_CircleIsCircle ==
  Done /\ pointsRaw = CircleStroke =>
    /\ result.type = "circle"
    /\ Near(result.x, CircleCentre[1] * OutScale, 5)
    /\ Near(result.y, CircleCentre[2] * OutScale, 5)
    /\ Near(result.r, 50 * OutScale, 5)

(* The closed path has fewer than three points: a single point, or two     *)
(* points at most 8 units apart.                                           *)
ShortClosedPath ==
  \/ Len(pointsRaw) = 1
  \/ Len(pointsRaw) = 2 /\ Gap2(pointsRaw) <= 8 * 8

(* C7: when the closed path has fewer than three points, recognize returns *)
(* a free shape whose points are exactly that closed path, runs no         *)
(* classifier, and every output coordinate is a number of the input.       *)
C7_ShortPathIsFree ==
  Done =>
    /\ Len(rawClosed) < 3 <=> ShortClosedPath
    /\ ShortClosedPath =>
         /\ result.type = "free"
         /\ result.points = pointsRaw
         /\ result.points = rawClosed
         /\ ~classified
         /\ candidates = <<>>
         /\ IsPointSeq(result.points)

(* Witness of C7: two identical points have been recognised.               *)
C7_Witness ==
  /\ Done
  /\ Len(pointsRaw) = 2
  /\ pointsRaw[1] = pointsRaw[2]
  /\ result.type = "free"
  /\ Len(result.points) = 2

(* C8: scaling every point by k > 0 leaves the variant unchanged and       *)
(* multiplies a rect's w and h and a circle's r by k.  Stated for the      *)
(* strokes of at most MaxLen points and the factors in Scales.             *)
C8_ScaleInvariant ==
  Done /\ Len(pointsRaw) <= MaxLen =>
    \A k \in Scales :
      LET scaled == recognize(Scale(pointsRaw, k), color)
      IN /\ scaled.type = result.type
         /\ result.type = "rect" => scaled.w = k * result.w /\ scaled.h = k * result.h
         /\ result.type = "circle" => Near(scaled.r, k * result.r, 1)

(* C9: for a stroke whose last point is within 8 units of its first,       *)
(* ensureClosed is a no-op and recognize returns the same variant as for   *)
(* the stroke with a copy of the first point appended.                     *)
C9_ClosureRobust ==
  Done /\ Len(pointsRaw) >= 2 /\ Gap2(pointsRaw) <= 8 * 8 =>
    /\ rawClosed = pointsRaw
    /\ recognize(Append(pointsRaw, pointsRaw[1]), color).type = result.type

(* The candidates whose confidence is not below the floor 0.4.             *)
Remaining == {i \in 1..Len(candidates) : candidates[i].confidence >= 4 * (ConfScale \div 10)}

(* C10: with at least three simplified vertices, recognize returns the     *)
(* shape of a highest-confidence candidate among those not below the       *)
(* floor 0.4, and returns the free shape carrying the simplified polygon   *)
(* exactly when no candidate remains.                                      *)
C10_Arbitration ==
  Done /\ Len(pts) >= 3 =>
    /\ classified
    /\ Len(candidates) = 3
    /\ Remaining # {} =>
         \E i \in Remaining :
           /\ \A j \in Remaining : candidates[i].confidence >= candidates[j].confidence
           /\ result = candidates[i].shape
    /\ Remaining = {} <=> result = Free(pts, color)

(* Witness of C10: two candidates remain with different confidences and    *)
(* the result is the shape of the higher one.                              *)
C10_Witness ==
  /\ Done
  /\ Len(pts) >= 3
  /\ \E i, j \in Remaining :
       /\ candidates[i].confidence > candidates[j].confidence
       /\ result = candidates[i].shape
       /\ result # candidates[j].shape

(* C11: the confidence of each of the three candidates (classifyRectangle, *)
(* classifyCircle, classifyTriangle) lies in [0, 1].                       *)
C11_ConfidenceInUnitInterval ==
  Done /\ classified =>
    \A i \in 1..Len(candidates) :
      candidates[i].confidence >= 0 /\ candidates[i].confidence <= ConfScale

(* C12: the color of the returned shape is the color argument.             *)
C12_ColorCopied ==
  Done => result.color = color

(* Witness of C12: a triangle has been returned for the second color.      *)
C12_Witness ==
  /\ Done
  /\ result.type = "triangle"
  /\ color = "#d62728"
  /\ result.color = "#d62728"

IsPrefix(s, t) == Len(s) <= Len(t) /\ \A i \in 1..Len(s) : s[i] = t[i]

(* C14: ensureClosed returns its input when it has fewer than 2 points or  *)
(* its ends are within 8 units, else the input followed by one copy of the *)
(* first point; the input is a prefix of the output and ensureClosed of    *)
(* the output is the output.                                               *)
C14_EnsureClosed ==
  Done =>
    /\ Len(pointsRaw) < 2 \/ Gap2(pointsRaw) <= 8 * 8 => rawClosed = pointsRaw
    /\ Len(pointsRaw) >= 2 /\ Gap2(pointsRaw) > 8 * 8
         => rawClosed = Append(pointsRaw, pointsRaw[1])
    /\ IsPrefix(pointsRaw, rawClosed)
    /\ ensureClosed(rawClosed) = rawClosed

(* Witness of C14: a path whose ends are 20 units apart has been closed    *)
(* with one more point.                                                    *)
C14_Witness ==
  /\ Done
  /\ Len(pointsRaw) >= 3
  /\ Gap2(pointsRaw) = 20 * 20
  /\ Len(rawClosed) = Len(pointsRaw) + 1
  /\ rawClosed[1] = Last(rawClosed)

(* s is a subsequence of t: the points of s occur in t in the same order.  *)
RECURSIVE IsSubsequence(_, _)
IsSubsequence(s, t) ==
  IF s = <<>> THEN TRUE
  ELSE IF t = <<>> THEN FALSE
  ELSE IF Head(s) = Head(t) THEN IsSubsequence(Tail(s), Tail(t))
  ELSE IsSubsequence(s, Tail(t))

(* The epsilons tried: 0.01, 3 and 20, as 10^4 * epsilon^2.                *)
RdpEpsilons2 == {1, 3 * 3 * 100 * 100, 20 * 20 * 100 * 100}

(* r keeps the ends and the order of points.                               *)
KeepsEnds(r, points) ==
  /\ IsSubsequence(r, points)
  /\ r[1] = points[1]
  /\ Last(r) = Last(points)

(* C15 as stated: for every input and every epsilon, rdp returns a         *)
(* subsequence of its input that starts and ends with the input's first    *)
(* and last points and has at least 2 points.  Stated of the call made by  *)
(* recognize and of rdp on the stroke itself, for the epsilons above.      *)
C15_RdpSubsequence ==
  Done =>
    /\ KeepsEnds(pts, rawClosed)
    /\ Len(pts) >= 2
    /\ \A e \in RdpEpsilons2 :
         LET r == rdp(pointsRaw, e)
         IN KeepsEnds(r, pointsRaw) /\ Len(r) >= 2

(* C15 amended: the same for every input of at least 2 points; an input of *)
(* fewer than 2 points is returned unchanged.                              *)
C15_RdpSubsequenceAmended ==
  Done =>
    /\ KeepsEnds(pts, rawClosed)
    /\ Len(rawClosed) >= 2 => Len(pts) >= 2
    /\ Len(rawClosed) < 2 => pts = rawClosed
    /\ \A e \in RdpEpsilons2 :
         LET r == rdp(pointsRaw, e)
         IN /\ KeepsEnds(r, pointsRaw)
            /\ Len(pointsRaw) >= 2 => Len(r) >= 2
            /\ Len(pointsRaw) < 2 => r = pointsRaw

(* Witness of C15: recognize has simplified a path of five or more points  *)
(* to a shorter one of at least three points.                              *)
C15_Witness ==
  /\ Done
  /\ Len(rawClosed) >= 5
  /\ Len(pts) >= 3
  /\ Len(pts) < Len(rawClosed)
  /\ pts[1] = rawClosed[1]
  /\ Last(pts) = Last(rawClosed)

(* C16: a free shape returned for a stroke of at least 2 points carries a  *)
(* closed point sequence: its first and last points are within 8 units.    *)
C16_FreeIsClosed ==
  Done /\ result.type = "free" /\ Len(pointsRaw) >= 2 =>
    Gap2(result.points) <= 8 * 8

(* Witness of C16: no candidate survived and the free shape carries the    *)
(* simplified polygon, whose ends differ.                                  *)
C16_Witness ==
  /\ Done
  /\ classified
  /\ result.type = "free"
  /\ result.points = pts
  /\ Gap2(pts) > 0
  /\ Gap2(pts) <= 8 * 8

-----------------------------------------------------------------------------
(* Properties of the App, stated on the handler of the last step and the   *)
(* state it started in.                                                    *)

(* The last step started with a stroke in progress.                        *)
StrokeWasInProgress == before # Null /\ before.drawing /\ before.currentShape # Null

(* The stroke that was in progress still is, possibly with more points.    *)
StrokeContinues ==
  /\ drawing
  /\ currentShape # Null
  /\ currentShape.color = before.currentShape.color
  /\ IsPrefix(before.currentShape.points, currentShape.points)

(* The stroke that was in progress has been passed to recognize and its    *)
(* shape added at the end of the list.                                     *)
StrokeClassified ==
  /\ ~drawing
  /\ currentShape = Null
  /\ shapes = Append(before.shapes,
                     recognize(before.currentShape.points, before.currentShape.color))

(* C17: a stroke started in draw mode is passed to recognize exactly once, *)
(* at the end of its gesture, and adds exactly one shape: a stroke in      *)
(* progress either continues or has just been classified, and the list     *)
(* grows only by the shape of the stroke that was in progress.             *)
C17_StrokeClassifiedOnce ==
  /\ StrokeWasInProgress => StrokeContinues \/ StrokeClassified
  /\ before # Null /\ Len(shapes) > Len(before.shapes)
       => StrokeWasInProgress /\ StrokeClassified

(* C18: Undo removes exactly the last shape of the list and leaves the     *)
(* earlier ones unchanged and in order; on an empty list it changes        *)
(* nothing.                                                                *)
C18_UndoRemovesLast ==
  event = "undo" =>
    /\ before.shapes = <<>> => shapes = <<>>
    /\ before.shapes # <<>> =>
         /\ Len(shapes) = Len(before.shapes) - 1
         /\ IsPrefix(shapes, before.shapes)
    /\ mode = before.mode
    /\ drawing = before.drawing
    /\ currentShape = before.currentShape

(* Witness of C18: Undo has removed the second of two different shapes.    *)
C18_Witness ==
  /\ event = "undo"
  /\ Len(before.shapes) = 2
  /\ before.shapes[1] # before.shapes[2]
  /\ shapes = <<before.shapes[1]>>

(* C19: after Reset the list is empty, no stroke is in progress, the mode  *)
(* is 'draw', gravity is 0 and no runner is active.                        *)
C19_ResetClears ==
  event = "reset" =>
    /\ shapes = <<>>
    /\ ~drawing
    /\ currentShape = Null
    /\ mode = "draw"
    /\ gravityY = 0
    /\ ~runner

(* Witness of C19: Reset was pressed in play mode, with a runner active,   *)
(* shapes in the list and a stroke left in progress.                       *)
C19_Witness ==
  /\ event = "reset"
  /\ before.mode = "play"
  /\ before.runner
  /\ before.gravityY = 1
  /\ before.shapes # <<>>
  /\ before.drawing
  /\ before.currentShape # Null
  /\ shapes = <<>>
  /\ mode = "draw"

(* The last step added a point to the stroke in progress.                  *)
PointAdded ==
  /\ event \in {"down", "move"}
  /\ currentShape # Null
  /\ currentShape # before.currentShape

(* C20: no point at or below the top of the ground is added to the stroke  *)
(* in progress, and every stroke passed to recognize lies strictly above   *)
(* the top of the ground.                                                  *)
C20_StrokeAboveGround ==
  /\ PointAdded =>
       currentShape.points[Len(currentShape.points)][2] < GROUND_TOP(window)
  /\ event = "up" /\ StrokeWasInProgress =>
       \A i \in 1..Len(before.currentShape.points) :
         before.currentShape.points[i][2] < GROUND_TOP(window)

-----------------------------------------------------------------------------
(* Properties of the simplification and of the classifiers.                *)

(* The squared distance of two points.                                     *)
Dist2(p, q) == (p[1] - q[1]) * (p[1] - q[1]) + (p[2] - q[2]) * (p[2] - q[2])

(* C23: when the first and last points of the path passed to rdp coincide, *)
(* the distance of an interior point is its Euclidean distance to that     *)
(* point, so an interior point farther than epsilon from it is retained in *)
(* the output.  Stated of the call rdp(rawClosed, eps) made by recognize.  *)
C23_DegenerateChordKeepsFarPoints ==
  Done /\ Len(rawClosed) >= 3 /\ rawClosed[1] = Last(rawClosed) =>
    \A i \in 2..(Len(rawClosed) - 1) :
      100 * 100 * Dist2(rawClosed[i], rawClosed[1])
          > epsilon2(bbox(rawClosed).w, bbox(rawClosed).h)
        => \E j \in 1..Len(pts) : pts[j] = rawClosed[i]

(* The index triples i < j < k of a path.                                  *)
Triples(path) ==
  {t \in (1..Len(path)) \X (1..Len(path)) \X (1..Len(path)) : t[1] < t[2] /\ t[2] < t[3]}

(* C24: when recognize returns a triangle, its vertices are three points   *)
(* of the simplified path in path order, and no triple of points of the    *)
(* simplified path has a strictly larger sum of pairwise distances.        *)
C24_TriangleIsWidestTriple ==
  Done /\ result.type = "triangle" =>
    /\ Len(result.points) = 3
    /\ \E t \in Triples(pts) : result.points = <<pts[t[1]], pts[t[2]], pts[t[3]]>>
    /\ LET s == tripleSum(result.points[1], result.points[2], result.points[3])
       IN \A o \in Triples(pts) : tripleSum(pts[o[1]], pts[o[2]], pts[o[3]]) <= s

(* Witness of C24: a triangle returned for a simplified path of more than  *)
(* three points, whose vertices are not the first three of the path.       *)
C24_Witness ==
  /\ Done
  /\ result.type = "triangle"
  /\ Len(pts) > 3
  /\ result.points # <<pts[1], pts[2], pts[3]>>
  /\ tripleSum(pts[1], pts[2], pts[3])
       < tripleSum(result.points[1], result.points[2], result.points[3])

(* C25: classifyTriangle gives a non-zero confidence only for 3, 4 or 5    *)
(* corners, and at the circularity of the simplified path 3 corners score  *)
(* at least as high as 4, and 4 at least as high as 5.                     *)
C25_TriangleConfidenceFavoursThree ==
  Done /\ classified =>
    LET circ == circularity(polygonPerimeter(pts), polygonArea(pts))
    IN /\ candidates[3].confidence > 0 => countCorners(pts) \in 3..5
       /\ candidates[3].confidence = triangleConfidence(countCorners(pts), circ)
       /\ triangleConfidence(3, circ) >= triangleConfidence(4, circ)
       /\ triangleConfidence(4, circ) >= triangleConfidence(5, circ)

(* C26: a rect returned by recognize is, when |w / h - 1| < 0.2 for the    *)
(* bounding box of the closed raw stroke, the square of side min(w, h)     *)
(* with the centre of the box, and otherwise the box itself; it lies       *)
(* inside the box.  Coordinates are in units of 1/OutScale pixel.          *)
C26_RectFromBoundingBox ==
  Done /\ result.type = "rect" =>
    LET bb == bbox(rawClosed)
        s  == Min2(bb.w, bb.h)
    IN /\ IF 5 * Abs(bb.w - bb.h) < bb.h
          THEN /\ result.w = s * OutScale
               /\ result.h = s * OutScale
               /\ 2 * result.x + result.w = (2 * bb.minX + bb.w) * OutScale
               /\ 2 * result.y + result.h = (2 * bb.minY + bb.h) * OutScale
          ELSE /\ result.x = bb.minX * OutScale
               /\ result.y = bb.minY * OutScale
               /\ result.w = bb.w * OutScale
               /\ result.h = bb.h * OutScale
       /\ result.x >= bb.minX * OutScale
       /\ result.y >= bb.minY * OutScale
       /\ result.x + result.w <= bb.maxX * OutScale
       /\ result.y + result.h <= bb.maxY * OutScale

(* The angle at p1 between the edge vectors to p0 and to p2 lies strictly  *)
(* between 35 and 145 degrees: cos^2 < cos^2(35 degrees), decided exactly. *)
(* A zero-length edge has the nominal magnitude 1 and the dot product 0,   *)
(* which gives 90 degrees.                                                 *)
AngleBetween35And145(p0, p1, p2) ==
  LET dot == (p0[1] - p1[1]) * (p2[1] - p1[1]) + (p0[2] - p1[2]) * (p2[2] - p1[2])
  IN IF Dist2(p0, p1) = 0 \/ Dist2(p2, p1) = 0 THEN TRUE
     ELSE FracLess(dot * dot, Dist2(p0, p1) * Dist2(p2, p1), Cos2AngleThresh, CosScale)

(* The vertices of a polygon, taken cyclically, with such an angle.        *)
SharpVertices(poly) ==
  {i \in 1..Len(poly) :
     AngleBetween35And145(poly[IF i = 1 THEN Len(poly) ELSE i - 1], poly[i],
                          poly[IF i = Len(poly) THEN 1 ELSE i + 1])}

(* countCorners(poly) agrees with C27.                                     *)
CountsCorners(poly) ==
  LET n == countCorners(poly)
  IN /\ Len(poly) < 3 => n = 0
     /\ Len(poly) >= 3 => n = Cardinality(SharpVertices(poly))
     /\ n <= Len(poly)

(* C27: countCorners returns the number of vertices, taken cyclically, at  *)
(* which the angle between the adjacent edges is strictly between 35 and   *)
(* 145 degrees; 0 for fewer than 3 vertices; never more than the number of *)
(* vertices.  Stated of the simplified path and of the stroke.             *)
C27_CountCorners ==
  Done => CountsCorners(pts) /\ CountsCorners(pointsRaw)

(* Witness of C27: a classified path whose corner count is neither 0 nor   *)
(* its number of vertices, and whose first vertex is a corner (by its      *)
(* predecessor, the last vertex).                                          *)
C27_Witness ==
  /\ Done
  /\ classified
  /\ countCorners(pts) > 0
  /\ countCorners(pts) < Len(pts)
  /\ 1 \in SharpVertices(pts)

(* All points of a set lie on one line (or coincide).                      *)
Collinear(points) ==
  \A i, j \in 1..Len(points) :
    (points[i][1] - points[1][1]) * (points[j][2] - points[1][2])
      = (points[j][1] - points[1][1]) * (points[i][2] - points[1][2])

(* fitCircle returns null under 6 points and for collinear or identical    *)
(* points.                                                                 *)
NoFitWhenDegenerate(points) ==
  Len(points) < 6 \/ Collinear(points) => fitCircle(points) = NoFit

(* The stroke drawn twice over at a quarter of its size: a set of up to    *)
(* ten points, collinear or identical when the stroke is.                  *)
Retraced(points) ==
  [i \in 1..(2 * Len(points)) |->
     <<points[((i - 1) % Len(points)) + 1][1] \div 4,
       points[((i - 1) % Len(points)) + 1][2] \div 4>>]

(* The fit of the simplified path is null or not acceptable.               *)
FitRejected(fit) ==
  ~fit.fit \/ fit.r <= 6 * OutScale \/ fit.stdRel >= 15 * (RatioScale \div 100)

(* The circle derived from the bounding box of the closed raw stroke.      *)
BBoxCircle(bb, c) ==
  Circle(((2 * bb.minX + bb.w) * OutScale) \div 2, ((2 * bb.minY + bb.h) * OutScale) \div 2,
         (Min2(bb.w, bb.h) * OutScale) \div 2, c)

(* The confidence of the circle candidate without the bonus of a good fit. *)
CircleBase(path) ==
  LET circ == circularity(polygonPerimeter(path), polygonArea(path))
  IN IF circ < 75 * (RatioScale \div 100) THEN 0 ELSE 9 * circ

(* classifyCircle goes on to the circle fit: the stroke is closed and its  *)
(* bounding box is at least 10 pixels wide and high.                       *)
ReachesFit ==
  pathClosed(pointsRaw) /\ Min2(bbox(rawClosed).w, bbox(rawClosed).h) >= 10

EndsMeetOrFarApart ==
  Gap2(pointsRaw) = 0 \/ Gap2(pointsRaw) > minClosePx * minClosePx

(* recognize returns a rect, circle or triangle only for a stroke of at    *)
(* least 3 points whose ends are distinct and at most 8 pixels apart.      *)
ClassifiedOnlyNearlyClosed ==
  result.type \in {"rect", "circle", "triangle"} =>
    /\ Len(pointsRaw) >= 3
    /\ Gap2(pointsRaw) > 0
    /\ Gap2(pointsRaw) <= minClosePx * minClosePx

(* C29 as stated: moreover, for every stroke whose ends coincide or are    *)
(* more than 8 pixels apart the simplification collapses to two points     *)
(* and recognize returns a free shape carrying the closed raw path.        *)
C29_CollapseToFree ==
  Done =>
    /\ ClassifiedOnlyNearlyClosed
    /\ EndsMeetOrFarApart =>
         /\ Len(pts) = 2
         /\ result = Free(rawClosed, color)

(* C29 amended: the simplification collapses to two points for such a      *)
(* stroke of two or more points, and is the single point of a one-point    *)
(* stroke.                                                                 *)
C29_CollapseToFreeAmended ==
  Done =>
    /\ ClassifiedOnlyNearlyClosed
    /\ EndsMeetOrFarApart =>
         /\ Len(pointsRaw) >= 2 => pts = <<rawClosed[1], Last(rawClosed)>>
         /\ Len(pointsRaw) = 1 => pts = pointsRaw
         /\ result = Free(rawClosed, color)

(* Witness of C29: a stroke around a non-empty area whose ends coincide,   *)
(* returned as a free shape with all its points.                           *)
C29_Witness ==
  /\ Done
  /\ Len(pointsRaw) >= 4
  /\ Gap2(pointsRaw) = 0
  /\ polygonArea(pointsRaw) > 0
  /\ Len(pts) = 2
  /\ result = Free(pointsRaw, color)

-----------------------------------------------------------------------------
(* Properties of the physics world of the App.                             *)

(* The bodies of the world other than the ground.                          *)
ShapeBodies == {i \in 1..Len(world) : world[i].kind = "body"}

(* C21: in draw mode, after the world sync, all bodies are static and      *)
(* gravity is 0; after Fall every shape's body is dynamic and gravity is   *)
(* 1; the ground is present and static in both modes.                      *)
C21_StaticInDrawDynamicAfterFall ==
  /\ mode = "draw" =>
       /\ \A i \in 1..Len(world) : world[i].isStatic
       /\ gravityY = 0
  /\ event = "play" =>
       /\ mode = "play"
       /\ \A i \in ShapeBodies : ~world[i].isStatic
       /\ gravityY = 1
  /\ Len(world) >= 1
  /\ world[1] = Ground
  /\ Ground.isStatic
  /\ \A i \in 2..Len(world) : world[i].kind = "body"

(* Witness of C21: Fall pressed with a shape in the list whose body has    *)
(* become dynamic, the ground still static.                                *)
C21_Witness ==
  /\ event = "play"
  /\ before.mode = "draw"
  /\ before.gravityY = 0
  /\ shapes # <<>>
  /\ ShapeBodies # {}
  /\ \A i \in ShapeBodies : ~world[i].isStatic
  /\ world[1].isStatic
  /\ gravityY = 1

(* C22: after every completed gesture and world sync the world holds,      *)
(* besides the ground, exactly one body for each entry of the shapes list. *)
C22_OneBodyPerShape ==
  /\ Len(world) = 1 + Len(shapes)
  /\ \A i \in 1..Len(shapes) :
       world[i + 1].kind = "body" /\ world[i + 1].shape = shapes[i]

(* C30: in play mode gravity is 1 and a runner is running on the current   *)
(* engine.                                                                 *)
C30_PlayModeRuns ==
  mode = "play" => gravityY = 1 /\ runner

=============================================================================
